---- MODULE Spec2Model ----
(***************************************************************************)
(* A model of package email (src/email.go): the Message builder            *)
(* (newMessage, attach, Tolist, Bytes), the LOGIN authentication mechanism *)
(* (loginAuth.Start, loginAuth.Next) and Send.                             *)
(*                                                                         *)
(* Strings the code only copies (addresses, subjects, file names) are      *)
(* opaque values.  The bytes Bytes writes are a sequence of tokens: one    *)
(* token per literal piece the code writes, the token CRLF for "\r\n", one *)
(* token per base64 character and one per raw data byte.                     *)
(* Go slices are modelled as Go has them: a header (array, offset, length, *)
(* capacity) over a backing array in a heap, so that append writes in      *)
(* place while capacity remains.                                           *)
(***************************************************************************)
EXTENDS Naturals, Sequences, FiniteSets, TLC

VARIABLES
    \* ---- Send ----
    heap,      \* the backing arrays of the program's []string values
    mTo,       \* m.To, a slice header
    mCc,       \* m.Cc
    mBcc,      \* m.Bcc
    auth,      \* whether Send's auth argument is non-nil
    addrOk,    \* whether addr has the form host:port
    cext,      \* the extensions the client last heard the server advertise
    pc,        \* Send's position
    log,       \* the calls Send has made on the SMTP client, with their outcome
    ret,       \* Send's return value ("pending" until it returns)
    tolist,    \* the slice m.Tolist() returned to the range loop of Send
    ri,        \* the number of elements of tolist the loop has consumed
    wire,      \* the bytes handed to w.Write
    \* ---- loginAuth ----
    server,    \* the smtp.ServerInfo handed to Start
    la,        \* the loginAuth value: username, password, host
    apc,       \* the position of the client's authentication exchange
    exch,      \* the calls of Start and Next so far, with arguments and results
    \* ---- Bytes ----
    msg,       \* the Message Bytes is called on
    out,       \* the bytes it returned
    bpc,       \* "built" before the call, "done" after
    \* ---- attach ----
    am,        \* the Message under construction
    am0,       \* that Message as its constructor returned it
    calls,     \* the Attach and Inline calls so far, with what ReadFile gave
    aret       \* the return value of the last call

sendVars == <<heap, mTo, mCc, mBcc, auth, addrOk, cext, pc, log, ret, tolist, ri, wire>>
authVars == <<server, la, apc, exch>>
bytesVars == <<msg, out, bpc>>
attachVars == <<am, am0, calls, aret>>
vars == <<sendVars, authVars, bytesVars, attachVars>>

Nil == "nil"

(***************************************************************************)
(* Sequence helpers.                                                       *)
(***************************************************************************)
\* the concatenation of a sequence of sequences (by halves, to keep the
\* evaluation shallow)
RECURSIVE Flatten(_)
Flatten(ss) ==
    IF ss = <<>> THEN <<>>
    ELSE IF Len(ss) = 1 THEN ss[1]
    ELSE LET h == Len(ss) \div 2
         IN  Flatten(SubSeq(ss, 1, h)) \o Flatten(SubSeq(ss, h + 1, Len(ss)))

Range(s) == {s[k] : k \in DOMAIN s}

\* strings.Join(elems, sep), as tokens
RECURSIVE Join(_, _)
Join(elems, sep) ==
    IF elems = <<>> THEN <<>>
    ELSE IF Len(elems) = 1 THEN <<elems[1]>>
    ELSE <<elems[1], sep>> \o Join(Tail(elems), sep)

(***************************************************************************)
(* Go slices of strings.                                                   *)
(***************************************************************************)
NilSlice == [arr |-> 0, off |-> 0, len |-> 0, cap |-> 0]

\* the elements s[0], ..., s[len(s)-1]
Elems(h, s) == [k \in 1..s.len |-> h[s.arr][s.off + k]]

\* the capacity the runtime gives the array append allocates
GrowCap(c) == IF c = 0 THEN 1 ELSE 2 * c

\* append(s, v): in place while len(s) < cap(s), else into a fresh array
append(h, s, v) ==
    IF s.len < s.cap
    THEN [heap |-> [h EXCEPT ![s.arr][s.off + s.len + 1] = v],
          slice |-> [s EXCEPT !.len = s.len + 1]]
    ELSE LET old == IF s.arr = 0 THEN <<>> ELSE Elems(h, s)
             new == [k \in 1..GrowCap(s.cap) |->
                        IF k <= s.len THEN old[k]
                        ELSE IF k = s.len + 1 THEN v ELSE ""]
         IN  [heap |-> Append(h, new),
              slice |-> [arr |-> Len(h) + 1, off |-> 0,
                         len |-> s.len + 1, cap |-> GrowCap(s.cap)]]

\* the loop  for _, x := range src { t = append(t, x) }  from element k on;
\* range reads src's header once and each element when its turn comes
RECURSIVE AppendAll(_, _, _, _)
AppendAll(h, t, src, k) ==
    IF k > src.len THEN [heap |-> h, slice |-> t]
    ELSE LET r == append(h, t, h[src.arr][src.off + k])
         IN  AppendAll(r.heap, r.slice, src, k + 1)

\* func (m *Message) Tolist() []string
Tolist(h, to, cc, bcc) ==
    LET r == AppendAll(h, to, cc, 1)
    IN  AppendAll(r.heap, r.slice, bcc, 1)

(***************************************************************************)
(* base64.StdEncoding and the line wrapping of Bytes.                      *)
(***************************************************************************)
CRLF == "\r\n"
boundary == "f46d043c813270fc6b04c2d223da"
LineLen == 76

encodeStd ==
    << "A", "B", "C", "D", "E", "F", "G", "H", "I", "J", "K", "L", "M",
       "N", "O", "P", "Q", "R", "S", "T", "U", "V", "W", "X", "Y", "Z",
       "a", "b", "c", "d", "e", "f", "g", "h", "i", "j", "k", "l", "m",
       "n", "o", "p", "q", "r", "s", "t", "u", "v", "w", "x", "y", "z",
       "0", "1", "2", "3", "4", "5", "6", "7", "8", "9", "+", "/" >>

StdPadding == "="

\* the character of a 6-bit value
Enc6(v) == encodeStd[v + 1]

\* the characters of the bytes b1 b2 b3, of which only the first n are there
EncodeGroup(b1, b2, b3, n) ==
    LET v == b1 * 65536 + b2 * 256 + b3
    IN  << Enc6(v \div 262144), Enc6((v \div 4096) % 64),
           IF n >= 2 THEN Enc6((v \div 64) % 64) ELSE StdPadding,
           IF n >= 3 THEN Enc6(v % 64) ELSE StdPadding >>

\* base64.StdEncoding.Encode: 3 bytes to 4 characters, the remainder padded
Encode(d) ==
    Flatten([g \in 1..((Len(d) + 2) \div 3) |->
                LET k == 3 * g - 2
                IN  IF k + 2 <= Len(d) THEN EncodeGroup(d[k], d[k + 1], d[k + 2], 3)
                    ELSE IF k + 1 <= Len(d) THEN EncodeGroup(d[k], d[k + 1], 0, 2)
                    ELSE EncodeGroup(d[k], 0, 0, 1)])

\* a loop that tests i%76 instead of (i+1)%76
WrapLinesEarly(b) ==
    Flatten([k \in 1..Len(b) |->
                IF (k - 1) % LineLen = 0 THEN <<b[k], CRLF>> ELSE <<b[k]>>])

\* for i, l := 0, len(b); i < l; i++ { WriteByte(b[i]); if (i+1)%76 == 0 { CRLF } }
\* (k is i+1)
WrapLines(b) ==
    Flatten([k \in 1..Len(b) |->
                IF k % LineLen = 0 THEN <<b[k], CRLF>> ELSE <<b[k]>>])

\* a raw byte written to the buffer, as a token
ByteTok(b) == "#" \o ToString(b)

\* buf.Write(attachment.Data)
RawBytes(d) == [k \in 1..Len(d) |-> ByteTok(d[k])]

(***************************************************************************)
(* Message.Bytes.  A message is a record; Attachments is a function from   *)
(* file names to attachments, and order is the order in which the range    *)
(* over that map visits its keys.                                          *)
(***************************************************************************)
DateNow == "<time.Now().Format(time.RFC822)>"

\* the part Bytes writes for one attachment (lines 130 to 154)
AttachmentPart(att) ==
    <<CRLF, CRLF, "--", boundary, CRLF>>
    \o (IF att.Inline
        THEN << "Content-Type: ", "message/rfc822", CRLF,
                "Content-Disposition: inline; filename=\"", att.Filename, "\"",
                CRLF, CRLF >>
             \o RawBytes(att.Data)
        ELSE << "Content-Type: ", "application/octet-stream", CRLF,
                "Content-Transfer-Encoding: base64", CRLF,
                "Content-Disposition: attachment; filename=\"", att.Filename, "\"",
                CRLF, CRLF >>
             \o WrapLines(Encode(att.Data)))
    \o <<CRLF, "--", boundary>>

\* func (m *Message) Bytes() []byte
Bytes(m, order) ==
    LET n == Cardinality(DOMAIN m.Attachments)
    IN  <<"From: ", m.From, CRLF>>
        \o <<"Date: ", DateNow, CRLF>>
        \o <<"To: ">> \o Join(m.To, ",") \o <<CRLF>>
        \o (IF Len(m.Cc) > 0 THEN <<"Cc: ">> \o Join(m.Cc, ",") \o <<CRLF>> ELSE <<>>)
        \o <<"Subject: ", m.Subject, CRLF>>
        \o (IF m.ReplyTo # "" THEN <<"Reply-To: ", m.ReplyTo, CRLF>> ELSE <<>>)
        \o <<"MIME-Version: 1.0", CRLF>>
        \o (IF n > 0
            THEN << "Content-Type: ", "multipart/mixed; boundary=", boundary, CRLF,
                    "--", boundary, CRLF >>
            ELSE <<>>)
        \o <<"Content-Type: ", m.BodyContentType, "; charset=utf-8", CRLF, CRLF>>
        \o <<m.Body>>
        \o <<CRLF>>
        \o (IF n > 0
            THEN Flatten([k \in 1..Len(order) |->
                             AttachmentPart(m.Attachments[order[k]])])
                 \o <<"--">>
            ELSE <<>>)

(***************************************************************************)
(* Send.  The SMTP client (net/smtp) and the server are the environment:   *)
(* every call on the client succeeds or fails, and the replies to EHLO     *)
(* (after Hello, and again after StartTLS) advertise any set of            *)
(* extensions.                                                             *)
(***************************************************************************)
ArrLen == 3

Exts == {"STARTTLS", "AUTH"}

\* the array the caller's recipient slices may share, and one private array
\* for each of To, Cc and Bcc
SharedArr == [k \in 1..ArrLen |-> "r" \o ToString(k)]
InitHeap == <<SharedArr, <<"x">>, <<"y">>, <<"z">>>>

\* the slices all[off : off+len] of the shared array
Windows ==
    {[arr |-> 1, off |-> o, len |-> l, cap |-> ArrLen - o] :
        o \in 0..ArrLen, l \in 0..ArrLen} \cap
    {w \in [arr : {1}, off : 0..ArrLen, len : 0..ArrLen, cap : 0..ArrLen] :
        w.off + w.len <= ArrLen}

\* a field's value: nil, a one-element slice of its own, or a shared window.
\* Cc and Bcc are only read, so an empty window of theirs is as good as nil.
Private(a) == [arr |-> a, off |-> 0, len |-> 1, cap |-> 1]
ToValues == {NilSlice, Private(2)} \cup Windows
FieldValues(a) == {NilSlice, Private(a)} \cup {w \in Windows : w.len > 0}

\* the message Send was given, as Bytes reads it now
SendMsg ==
    [From |-> "from", To |-> Elems(heap, mTo), Cc |-> Elems(heap, mCc),
     ReplyTo |-> "", Subject |-> "subject", Body |-> "body",
     BodyContentType |-> "text/plain", Attachments |-> <<>>]

Call(step, ok, arg, adv) == [step |-> step, ok |-> ok, arg |-> arg, adv |-> adv]

\* return err
Return(step) == /\ pc' = "done"
                /\ ret' = step

SendIdle ==
    /\ heap = <<>> /\ mTo = NilSlice /\ mCc = NilSlice /\ mBcc = NilSlice
    /\ auth = FALSE /\ addrOk = TRUE /\ cext = {}
    /\ pc = "idle" /\ log = <<>> /\ ret = "pending"
    /\ tolist = NilSlice /\ ri = 0 /\ wire = <<>>

SendInit ==
    /\ heap = InitHeap
    /\ mTo \in ToValues
    /\ mCc \in FieldValues(3)
    /\ mBcc \in FieldValues(4)
    /\ auth \in BOOLEAN
    /\ addrOk \in BOOLEAN
    /\ cext = {}
    /\ pc = "dial" /\ log = <<>> /\ ret = "pending"
    /\ tolist = NilSlice /\ ri = 0 /\ wire = <<>>

\* c, err := smtp.Dial(addr).  smtp.Dial hands addr to net.Dial("tcp", addr),
\* which splits it with net.SplitHostPort and fails when that fails.
SendDial ==
    /\ pc = "dial"
    /\ \E netOk \in BOOLEAN :
          IF addrOk /\ netOk
          THEN pc' = "hello" /\ ret' = ret
          ELSE Return("Dial")
    /\ UNCHANGED <<heap, mTo, mCc, mBcc, auth, addrOk, cext, log, tolist, ri, wire>>
    /\ UNCHANGED <<authVars, bytesVars, attachVars>>

\* host, _, _ := net.SplitHostPort(addr): the error is dropped, host is ""
\* when addr does not split
Host == IF addrOk THEN "host" ELSE ""

\* c.Hello(host)
SendHello ==
    /\ pc = "hello"
    /\ \E ok \in BOOLEAN, adv \in SUBSET Exts :
          /\ log' = Append(log, Call("Hello", ok, Host, IF ok THEN adv ELSE {}))
          /\ IF ok THEN pc' = "starttls" /\ ret' = ret /\ cext' = adv
                   ELSE Return("Hello") /\ cext' = cext
    /\ UNCHANGED <<heap, mTo, mCc, mBcc, auth, addrOk, tolist, ri, wire>>
    /\ UNCHANGED <<authVars, bytesVars, attachVars>>

\* ok, _ := c.Extension("STARTTLS")
TLSWanted == "STARTTLS" \in cext

\* c.StartTLS(config), after which the client says EHLO again
SendStartTLS ==
    /\ pc = "starttls"
    /\ IF TLSWanted
       THEN \E ok \in BOOLEAN, adv \in SUBSET Exts :
               /\ log' = Append(log, Call("StartTLS", ok, Host, IF ok THEN adv ELSE {}))
               /\ IF ok THEN pc' = "auth" /\ ret' = ret /\ cext' = adv
                        ELSE Return("StartTLS") /\ cext' = cext
       ELSE pc' = "auth" /\ UNCHANGED <<log, ret, cext>>
    /\ UNCHANGED <<heap, mTo, mCc, mBcc, auth, addrOk, tolist, ri, wire>>
    /\ UNCHANGED <<authVars, bytesVars, attachVars>>

\* a Send that authenticates whenever auth is given, advertised or not
AuthWantedUnadvertised == auth

\* auth != nil, and ok, _ := c.Extension("AUTH")
AuthWanted == auth /\ "AUTH" \in cext

\* c.Auth(auth)
SendAuth ==
    /\ pc = "auth"
    /\ IF AuthWanted
       THEN \E ok \in BOOLEAN :
               /\ log' = Append(log, Call("Auth", ok, Nil, {}))
               /\ IF ok THEN pc' = "mail" /\ ret' = ret ELSE Return("Auth")
       ELSE pc' = "mail" /\ UNCHANGED <<log, ret>>
    /\ UNCHANGED <<heap, mTo, mCc, mBcc, auth, addrOk, cext, tolist, ri, wire>>
    /\ UNCHANGED <<authVars, bytesVars, attachVars>>

\* c.Mail(m.From); when it succeeds the range clause calls m.Tolist()
SendMail ==
    /\ pc = "mail"
    /\ \E ok \in BOOLEAN :
          /\ log' = Append(log, Call("Mail", ok, "from", {}))
          /\ IF ok
             THEN LET r == Tolist(heap, mTo, mCc, mBcc)
                  IN  /\ heap' = r.heap
                      /\ tolist' = r.slice
                      /\ pc' = "rcpt" /\ ret' = ret
             ELSE Return("Mail") /\ UNCHANGED <<heap, tolist>>
    /\ UNCHANGED <<mTo, mCc, mBcc, auth, addrOk, cext, ri, wire>>
    /\ UNCHANGED <<authVars, bytesVars, attachVars>>

\* a loop that drops the error of c.Rcpt and goes on
SendRcptDropErr ==
    /\ pc = "rcpt"
    /\ ri < tolist.len
    /\ \E ok \in BOOLEAN :
          /\ log' = Append(log, Call("Rcpt", ok, Elems(heap, tolist)[ri + 1], {}))
          /\ pc' = "rcpt" /\ ret' = ret /\ ri' = ri + 1
    /\ UNCHANGED <<heap, mTo, mCc, mBcc, auth, addrOk, cext, tolist, wire>>
    /\ UNCHANGED <<authVars, bytesVars, attachVars>>

\* for _, to := range m.Tolist() { c.Rcpt(to) }
SendRcpt ==
    /\ pc = "rcpt"
    /\ ri < tolist.len
    /\ \E ok \in BOOLEAN :
          /\ log' = Append(log, Call("Rcpt", ok, Elems(heap, tolist)[ri + 1], {}))
          /\ IF ok THEN pc' = "rcpt" /\ ret' = ret /\ ri' = ri + 1
                   ELSE Return("Rcpt") /\ ri' = ri
    /\ UNCHANGED <<heap, mTo, mCc, mBcc, auth, addrOk, cext, tolist, wire>>
    /\ UNCHANGED <<authVars, bytesVars, attachVars>>

\* w, err := c.Data()
SendData ==
    /\ pc = "rcpt"
    /\ ri = tolist.len
    /\ \E ok \in BOOLEAN :
          /\ log' = Append(log, Call("Data", ok, Nil, {}))
          /\ IF ok THEN pc' = "write" /\ ret' = ret ELSE Return("Data")
    /\ UNCHANGED <<heap, mTo, mCc, mBcc, auth, addrOk, cext, tolist, ri, wire>>
    /\ UNCHANGED <<authVars, bytesVars, attachVars>>

\* _, err = w.Write(m.Bytes())
SendWrite ==
    /\ pc = "write"
    /\ wire' = Bytes(SendMsg, <<>>)
    /\ \E ok \in BOOLEAN :
          /\ log' = Append(log, Call("Write", ok, Nil, {}))
          /\ IF ok THEN pc' = "close" /\ ret' = ret ELSE Return("Write")
    /\ UNCHANGED <<heap, mTo, mCc, mBcc, auth, addrOk, cext, tolist, ri>>
    /\ UNCHANGED <<authVars, bytesVars, attachVars>>

\* err = w.Close()
SendClose ==
    /\ pc = "close"
    /\ \E ok \in BOOLEAN :
          /\ log' = Append(log, Call("Close", ok, Nil, {}))
          /\ IF ok THEN pc' = "quit" /\ ret' = ret ELSE Return("Close")
    /\ UNCHANGED <<heap, mTo, mCc, mBcc, auth, addrOk, cext, tolist, ri, wire>>
    /\ UNCHANGED <<authVars, bytesVars, attachVars>>

\* return c.Quit()
SendQuit ==
    /\ pc = "quit"
    /\ \E ok \in BOOLEAN :
          /\ log' = Append(log, Call("Quit", ok, Nil, {}))
          /\ IF ok THEN Return(Nil) ELSE Return("Quit")
    /\ UNCHANGED <<heap, mTo, mCc, mBcc, auth, addrOk, cext, tolist, ri, wire>>
    /\ UNCHANGED <<authVars, bytesVars, attachVars>>

Send ==
    \/ SendDial
    \/ SendHello
    \/ SendStartTLS
    \/ SendAuth
    \/ SendMail
    \/ SendRcpt
    \/ SendData
    \/ SendWrite
    \/ SendClose
    \/ SendQuit

AuthIdle == server = Nil /\ la = Nil /\ apc = "idle" /\ exch = <<>>
BytesIdle == msg = Nil /\ out = <<>> /\ bpc = "idle"
AttachIdle == am = Nil /\ am0 = Nil /\ calls = <<>> /\ aret = Nil

InitSend == SendInit /\ AuthIdle /\ BytesIdle /\ AttachIdle
SpecSend == InitSend /\ [][Send]_vars

(***************************************************************************)
(* Properties of Send.                                                     *)
(***************************************************************************)
Issued(step) == \E k \in DOMAIN log : log[k].step = step

Rank(step) ==
    CASE step = "Hello" -> 1
      [] step = "StartTLS" -> 2
      [] step = "Auth" -> 3
      [] step = "Mail" -> 4
      [] step = "Rcpt" -> 5
      [] step = "Data" -> 6
      [] step = "Write" -> 7
      [] step = "Close" -> 8
      [] step = "Quit" -> 9

\* Send has got past the point where it decides on a step of rank r
Past(r) ==
    \/ \E k \in DOMAIN log : Rank(log[k].step) > r
    \/ r = 2 /\ pc \in {"auth", "mail"}
    \/ r = 3 /\ pc = "mail"

\* what the server advertised in its last reply to EHLO
HelloAdv == log[1].adv
LastAdv ==
    IF Issued("StartTLS")
    THEN log[CHOOSE k \in DOMAIN log : log[k].step = "StartTLS"].adv
    ELSE HelloAdv

\* the recipients as the caller gave them to Send
To0 == Elems(InitHeap, mTo)
Cc0 == Elems(InitHeap, mCc)
Bcc0 == Elems(InitHeap, mBcc)

\* the addresses Send has issued Rcpt for, in order
RcptArgs ==
    LET RECURSIVE Pick(_)
        Pick(k) == IF k > Len(log) THEN <<>>
                   ELSE (IF log[k].step = "Rcpt" THEN <<log[k].arg>> ELSE <<>>)
                        \o Pick(k + 1)
    IN  Pick(1)

\* C1: the steps of Send are issued in the order Hello, StartTLS, Auth, Mail,
\* Rcpt..., Data, Write, Close, Quit, each but Rcpt at most once and none before
\* an earlier one; StartTLS exactly when the reply to Hello advertised STARTTLS,
\* Auth exactly when auth is non-nil and the last EHLO reply advertised AUTH;
\* Data only after Mail and one successful Rcpt for each element of the list.
C1_StepOrder ==
    /\ \A j, k \in DOMAIN log :
          j < k => /\ Rank(log[j].step) <= Rank(log[k].step)
                   /\ Rank(log[j].step) = Rank(log[k].step) => log[k].step = "Rcpt"
    /\ log # <<>> => log[1].step = "Hello"
    /\ \A k \in DOMAIN log :
          Rank(log[k].step) >= 7 => k > 1 /\ Rank(log[k - 1].step) = Rank(log[k].step) - 1
    /\ Issued("Rcpt") \/ Issued("Data") => Issued("Mail") /\ Issued("Hello")
    /\ Issued("StartTLS") => "STARTTLS" \in HelloAdv
    /\ Past(2) => ("STARTTLS" \in HelloAdv => Issued("StartTLS"))
    /\ Issued("Auth") => auth /\ "AUTH" \in LastAdv
    /\ Past(3) => (auth /\ "AUTH" \in LastAdv => Issued("Auth"))
    /\ Issued("Data") =>
          /\ \E k \in DOMAIN log : log[k].step = "Mail" /\ log[k].ok
          /\ \A k \in DOMAIN log : log[k].step = "Rcpt" => log[k].ok
          /\ Len(RcptArgs) = tolist.len

C1_Witness ==
    /\ ret = Nil
    /\ Issued("StartTLS") /\ Issued("Auth")
    /\ Len(RcptArgs) >= 2

\* the first step that failed ("" when none has)
FirstFailure ==
    IF \E k \in DOMAIN log : ~log[k].ok
    THEN log[CHOOSE k \in DOMAIN log :
                 ~log[k].ok /\ \A j \in 1..(k - 1) : log[j].ok].step
    ELSE ""

\* C2: Send returns the error of the first step that fails and issues no step
\* after it: a Dial failure (which an addr that is not host:port causes) returns
\* before any step; a failed step is the last step and its error is the result;
\* Send returns nil only when every step through Quit has succeeded.
C2_FirstError ==
    /\ (ret # "pending") <=> (pc = "done")
    /\ \A k \in DOMAIN log : ~log[k].ok => k = Len(log) /\ pc = "done"
    /\ pc = "done" /\ FirstFailure # "" => ret = FirstFailure
    /\ pc = "done" /\ FirstFailure = "" =>
          \/ ret = "Dial" /\ log = <<>>
          \/ ret = Nil /\ log # <<>> /\ log[Len(log)].step = "Quit"
    /\ ret = "Dial" => log = <<>>
    /\ ~addrOk /\ pc = "done" => ret = "Dial" /\ log = <<>>
    /\ ret = Nil =>
          /\ \A k \in DOMAIN log : log[k].ok
          /\ \A st \in {"Hello", "Mail", "Data", "Write", "Close", "Quit"} : Issued(st)
          /\ Len(RcptArgs) = tolist.len

C2_Witness ==
    /\ pc = "done" /\ ret = "Rcpt"
    /\ Len(RcptArgs) >= 2
    /\ ~Issued("Data")

\* Tolist has been called
TolistCalled == \E k \in DOMAIN log : log[k].step = "Mail" /\ log[k].ok

\* C8: Tolist returns To, then Cc, then Bcc, in order and with duplicates,
\* and leaves the contents of To, Cc and Bcc as they were; Send issues one
\* Rcpt for each element of the list, in order, after Mail and before Data.
C8_TolistAllRecipients ==
    TolistCalled =>
        /\ Elems(heap, tolist) = To0 \o Cc0 \o Bcc0
        /\ Elems(heap, mTo) = To0
        /\ Elems(heap, mCc) = Cc0
        /\ Elems(heap, mBcc) = Bcc0
        /\ RcptArgs = SubSeq(Elems(heap, tolist), 1, Len(RcptArgs))
        /\ Issued("Data") => RcptArgs = Elems(heap, tolist)

\* whether sub occurs in s as a run of consecutive tokens
Contains(s, sub) ==
    \E k \in 0..(Len(s) - Len(sub)) : SubSeq(s, k + 1, k + Len(sub)) = sub

\* C9: the bytes Send writes have a To header listing To, a Cc header iff Cc
\* is not empty, no Bcc header and no address that occurs only in Bcc, while
\* every Bcc address has had its Rcpt by the time Data is issued.
C9_BccHidden ==
    /\ Issued("Write") =>
          /\ Contains(wire, <<"To: ">> \o Join(To0, ",") \o <<CRLF>>)
          /\ ("Cc: " \in Range(wire)) <=> (Len(Cc0) > 0)
          /\ Len(Cc0) > 0 => Contains(wire, <<"Cc: ">> \o Join(Cc0, ",") \o <<CRLF>>)
          /\ "Bcc: " \notin Range(wire)
          /\ \A b \in Range(Bcc0) \ (Range(To0) \cup Range(Cc0)) : b \notin Range(wire)
    /\ Issued("Data") => Range(Bcc0) \subseteq Range(RcptArgs)

(***************************************************************************)
(* loginAuth.  A server challenge is a sequence of characters; user name,  *)
(* password and host names are opaque.                                     *)
(***************************************************************************)
UpperCase ==
    << "A", "B", "C", "D", "E", "F", "G", "H", "I", "J", "K", "L", "M",
       "N", "O", "P", "Q", "R", "S", "T", "U", "V", "W", "X", "Y", "Z" >>
LowerCase ==
    << "a", "b", "c", "d", "e", "f", "g", "h", "i", "j", "k", "l", "m",
       "n", "o", "p", "q", "r", "s", "t", "u", "v", "w", "x", "y", "z" >>

\* strings.ToLower
LowerOf(c) ==
    IF \E k \in DOMAIN UpperCase : UpperCase[k] = c
    THEN LowerCase[CHOOSE k \in DOMAIN UpperCase : UpperCase[k] = c]
    ELSE c
ToLower(str) == [k \in DOMAIN str |-> LowerOf(str[k])]

\* strings.TrimSuffix
TrimSuffix(str, suffix) ==
    IF /\ Len(str) >= Len(suffix)
       /\ SubSeq(str, Len(str) - Len(suffix) + 1, Len(str)) = suffix
    THEN SubSeq(str, 1, Len(str) - Len(suffix))
    ELSE str

\* func LoginAuth(username, password, host string) smtp.Auth
LoginAuth(username, password, host) ==
    [username |-> username, password |-> password, host |-> host]

\* a Start that only compares the host name
StartAnyConnection(a, srv) ==
    IF srv.Name # a.host
    THEN [mech |-> "", resp |-> Nil, err |-> "LoginAuth: Wrong host name"]
    ELSE [mech |-> "LOGIN", resp |-> Nil, err |-> Nil]

\* a Start that does not compare the host name
StartAnyHost(a, srv) ==
    IF ~srv.TLS /\ ~(\E k \in DOMAIN srv.Auth : srv.Auth[k] = "LOGIN")
    THEN [mech |-> "", resp |-> Nil, err |-> "LoginAuth: Unencrypted connection"]
    ELSE [mech |-> "LOGIN", resp |-> Nil, err |-> Nil]

\* func (a *loginAuth) Start(server *smtp.ServerInfo) (string, []byte, error)
Start(a, srv) ==
    IF ~srv.TLS /\ ~(\E k \in DOMAIN srv.Auth : srv.Auth[k] = "LOGIN")
    THEN [mech |-> "", resp |-> Nil, err |-> "LoginAuth: Unencrypted connection"]
    ELSE IF srv.Name # a.host
    THEN [mech |-> "", resp |-> Nil, err |-> "LoginAuth: Wrong host name"]
    ELSE [mech |-> "LOGIN", resp |-> Nil, err |-> Nil]

\* a Next that answers every challenge with the password
NextAlwaysPassword(a, fromServer, more) ==
    IF ~more THEN [resp |-> Nil, err |-> Nil]
    ELSE [resp |-> a.password, err |-> Nil]

\* func (a *loginAuth) Next(fromServer []byte, more bool) ([]byte, error)
Next(a, fromServer, more) ==
    IF ~more THEN [resp |-> Nil, err |-> Nil]
    ELSE LET command == ToLower(TrimSuffix(fromServer, <<":">>))
         IN  IF command = <<"u", "s", "e", "r", "n", "a", "m", "e">>
             THEN [resp |-> a.username, err |-> Nil]
             ELSE IF command = <<"p", "a", "s", "s", "w", "o", "r", "d">>
             THEN [resp |-> a.password, err |-> Nil]
             ELSE [resp |-> Nil, err |-> "LoginAuth: unexpected server challenge"]

(***************************************************************************)
(* The exchange the SMTP client drives in c.Auth(auth): Start once, then   *)
(* Next for every reply of the server, 334 with a challenge (more) or 235  *)
(* (no more), until Next gives an error or no response.                    *)
(***************************************************************************)
MaxRounds == 3

Names == {"mail.example", "other.example"}
AuthLists == {<<>>, <<"PLAIN">>, <<"LOGIN">>, <<"PLAIN", "LOGIN">>, <<"login">>}

Challenges ==
    { <<"U", "s", "e", "r", "n", "a", "m", "e", ":">>,
      <<"P", "a", "s", "s", "w", "o", "r", "d", ":">>,
      <<"u", "s", "e", "r", "n", "a", "m", "e">>,
      <<"P", "A", "S", "S", "W", "O", "R", "D", ":">>,
      <<"U", "s", "e", "r", "n", "a", "m", "e", ":", ":">>,
      <<"P", "a", "s", "s", "w", "o", "r", "d", ":", " ">>,
      <<"L", "o", "g", "i", "n", ":">>,
      <<>> }

Entry(call, from, more, r) ==
    [call |-> call, from |-> from, more |-> more,
     mech |-> IF call = "Start" THEN r.mech ELSE "", resp |-> r.resp, err |-> r.err]

AuthInit ==
    /\ server \in [Name : Names, TLS : BOOLEAN, Auth : AuthLists]
    /\ la \in {LoginAuth("user", "secret", h) : h \in Names}
    /\ apc = "start"
    /\ exch = <<>>

\* mech, resp, err := a.Start(&ServerInfo{c.serverName, c.tls, c.auth})
AuthStart ==
    /\ apc = "start"
    /\ LET r == Start(la, server)
       IN  /\ exch' = Append(exch, Entry("Start", <<>>, FALSE, r))
           /\ apc' = IF r.err # Nil THEN "failed" ELSE "wait"
    /\ UNCHANGED <<server, la>>
    /\ UNCHANGED <<sendVars, bytesVars, attachVars>>

\* the server answers 334 with a challenge: resp, err = a.Next(msg, true)
AuthChallenge ==
    /\ apc = "wait"
    /\ Len(exch) <= MaxRounds
    /\ \E c \in Challenges :
          LET r == Next(la, c, TRUE)
          IN  /\ exch' = Append(exch, Entry("Next", c, TRUE, r))
              /\ apc' = IF r.err # Nil THEN "failed"
                        ELSE IF r.resp = Nil THEN "done" ELSE "wait"
    /\ UNCHANGED <<server, la>>
    /\ UNCHANGED <<sendVars, bytesVars, attachVars>>

\* the server answers 235: resp, err = a.Next(msg, false)
AuthAccepted ==
    /\ apc = "wait"
    /\ \E c \in Challenges :
          LET r == Next(la, c, FALSE)
          IN  /\ exch' = Append(exch, Entry("Next", c, FALSE, r))
              /\ apc' = IF r.err # Nil THEN "failed"
                        ELSE IF r.resp = Nil THEN "done" ELSE "wait"
    /\ UNCHANGED <<server, la>>
    /\ UNCHANGED <<sendVars, bytesVars, attachVars>>

\* the server answers with any other code: the client gives up without Next
AuthRejected ==
    /\ apc = "wait"
    /\ apc' = "failed"
    /\ UNCHANGED <<server, la, exch>>
    /\ UNCHANGED <<sendVars, bytesVars, attachVars>>

Auth ==
    \/ AuthStart
    \/ AuthChallenge
    \/ AuthAccepted
    \/ AuthRejected

InitAuth == AuthInit /\ SendIdle /\ BytesIdle /\ AttachIdle
SpecAuth == InitAuth /\ [][Auth]_vars

(***************************************************************************)
(* Properties of loginAuth.                                                *)
(***************************************************************************)
LoginAdvertised == \E k \in DOMAIN server.Auth : server.Auth[k] = "LOGIN"

\* the responses Next has handed out
Responses == {exch[k].resp : k \in {j \in DOMAIN exch : exch[j].call = "Next"}}

\* C3: on a connection without TLS whose server does not advertise LOGIN,
\* Start returns an error and no mechanism, Next is never called and neither
\* the user name nor the password is handed out.
C3_NoPlaintextLogin ==
    ~server.TLS /\ ~LoginAdvertised /\ apc # "start" =>
        /\ exch[1].call = "Start"
        /\ exch[1].err # Nil
        /\ exch[1].mech = ""
        /\ Len(exch) = 1
        /\ apc = "failed"
        /\ Responses \cap {la.username, la.password} = {}

C3_Witness ==
    /\ ~server.TLS /\ ~LoginAdvertised
    /\ server.Name = la.host
    /\ server.Auth = <<"PLAIN">>
    /\ apc = "failed"

\* C4: whenever the server's name differs from the host given to LoginAuth,
\* Start returns an error; it returns "LOGIN", no initial response and no
\* error only when the name equals that host.
C4_HostMustMatch ==
    apc # "start" =>
        /\ exch[1].call = "Start"
        /\ server.Name # la.host => exch[1].err # Nil /\ exch[1].mech = "" /\ apc = "failed"
        /\ exch[1].err = Nil => /\ server.Name = la.host
                                /\ exch[1].mech = "LOGIN"
                                /\ exch[1].resp = Nil
        /\ exch[1].mech = "LOGIN" => server.Name = la.host /\ exch[1].err = Nil

C4_Witness ==
    /\ server.TLS /\ LoginAdvertised
    /\ server.Name # la.host
    /\ apc = "failed"
    /\ exch[1].err = "LoginAuth: Wrong host name"

UsernamePrompt == <<"U", "s", "e", "r", "n", "a", "m", "e", ":">>
PasswordPrompt == <<"P", "a", "s", "s", "w", "o", "r", "d", ":">>

\* the challenges that spell "username" or "password" in any case, with at
\* most one ":" after them
UsernameSpellings == {UsernamePrompt, <<"u", "s", "e", "r", "n", "a", "m", "e">>}
PasswordSpellings == {PasswordPrompt, <<"P", "A", "S", "S", "W", "O", "R", "D", ":">>}

NextCalls == {k \in DOMAIN exch : exch[k].call = "Next"}

\* C5 as stated: Next answers "Username:" with the user name and "Password:"
\* with the password, any other challenge with an error and no credential, and
\* more = false with nothing; the password is sent once, after the user name.
C5_AsStated ==
    /\ \A k \in NextCalls :
          LET e == exch[k]
          IN  /\ ~e.more => e.resp = Nil /\ e.err = Nil
              /\ e.more /\ e.from = UsernamePrompt => e.resp = la.username /\ e.err = Nil
              /\ e.more /\ e.from = PasswordPrompt => e.resp = la.password /\ e.err = Nil
              /\ e.more /\ e.from \notin {UsernamePrompt, PasswordPrompt} =>
                    e.resp = Nil /\ e.err # Nil
    /\ \A j, k \in NextCalls :
          exch[j].resp = la.password /\ exch[k].resp = la.password => j = k
    /\ \A k \in NextCalls :
          exch[k].resp = la.password =>
              \E j \in NextCalls : j < k /\ exch[j].resp = la.username

\* C5 as amended: Next answers a challenge spelling "username" (in any case,
\* with or without one trailing ":") with the user name, one spelling "password"
\* with the password, any other challenge with an error and no credential, and
\* more = false with nothing; it answers each prompt whenever the server sends
\* it, so the password goes out only in reply to a password prompt.
C5_PromptAnswers ==
    \A k \in NextCalls :
        LET e == exch[k]
        IN  /\ k > 1 /\ exch[1].call = "Start" /\ exch[1].err = Nil
            /\ ~e.more => e.resp = Nil /\ e.err = Nil
            /\ e.more /\ e.from \in UsernameSpellings => e.resp = la.username /\ e.err = Nil
            /\ e.more /\ e.from \in PasswordSpellings => e.resp = la.password /\ e.err = Nil
            /\ e.more /\ e.from \notin UsernameSpellings \cup PasswordSpellings =>
                  e.resp = Nil /\ e.err # Nil
            /\ e.resp = la.password => e.more /\ e.from \in PasswordSpellings

C5_Witness ==
    /\ apc = "done"
    /\ Len(exch) = 4
    /\ exch[2].from = UsernamePrompt /\ exch[2].resp = la.username
    /\ exch[3].from = PasswordPrompt /\ exch[3].resp = la.password
    /\ ~exch[4].more

(***************************************************************************)
(* Bytes on its own: the messages it is called on, and the call.           *)
(***************************************************************************)
MaxLines == 2

\* data lengths around the multiples of the 57 bytes that fill one line
BytesPerLine == (LineLen \div 4) * 3
DataLens ==
    {n \in 0..(MaxLines * BytesPerLine + 2) :
        \E q \in 0..MaxLines : n + 1 >= q * BytesPerLine /\ n <= q * BytesPerLine + 2}

Zeros(n) == [k \in 1..n |-> 0]
Mixed(n) == [k \in 1..n |-> (k * 37 + 218) % 256]

FileData == {Zeros(n) : n \in DataLens} \cup {Mixed(n) : n \in DataLens}
SmallData == {Mixed(n) : n \in {0, 1, BytesPerLine}}

Attachment(filename, data, inline) ==
    [Filename |-> filename, Data |-> data, Inline |-> inline]

\* the values of m.Attachments: each key maps to an attachment of that name
AttachmentMaps ==
    {<<>>}
    \cup {[f \in {"f1"} |-> a] :
            a \in {Attachment("f1", d, i) : d \in FileData, i \in BOOLEAN}}
    \cup {[f \in {"f2"} |-> a] :
            a \in {Attachment("f2", d, i) : d \in SmallData, i \in BOOLEAN}}
    \cup {[f \in {"f1", "f2"} |-> IF f = "f1" THEN a ELSE b] :
            a \in {Attachment("f1", d, i) : d \in FileData, i \in BOOLEAN},
            b \in {Attachment("f2", d, i) : d \in SmallData, i \in BOOLEAN}}

Messages ==
    [From : {"from"}, To : {<<"a">>, <<"a", "b">>}, Cc : {<<>>, <<"c">>},
     ReplyTo : {"", "reply"}, Subject : {"subject"}, Body : {"body"},
     BodyContentType : {"text/plain", "text/html"},
     Attachments : AttachmentMaps]

\* the orders in which a range over the map may visit its keys
Orders(keys) ==
    {o \in UNION {[1..n -> keys] : n \in {Cardinality(keys)}} :
        \A j, k \in DOMAIN o : j # k => o[j] # o[k]}

BytesInit ==
    /\ msg \in Messages
    /\ out = <<>>
    /\ bpc = "built"

\* out = m.Bytes()
BytesCall ==
    /\ bpc = "built"
    /\ \E order \in Orders(DOMAIN msg.Attachments) : out' = Bytes(msg, order)
    /\ bpc' = "done"
    /\ UNCHANGED msg
    /\ UNCHANGED <<sendVars, authVars, attachVars>>

InitBytes == BytesInit /\ SendIdle /\ AuthIdle /\ AttachIdle
SpecBytes == InitBytes /\ [][BytesCall]_vars

(***************************************************************************)
(* Properties of Bytes.  The lines of a run of tokens are its pieces       *)
(* between CRLF tokens.                                                    *)
(***************************************************************************)
Breaks(s) == {k \in DOMAIN s : s[k] = CRLF}

\* the break before position k (0 when there is none)
PrevBreak(s, k) ==
    LET before == {j \in Breaks(s) : j < k}
    IN  IF before = {} THEN 0 ELSE CHOOSE j \in before : \A i \in before : i <= j

\* the line ended by the break at k
LineBefore(s, k) == SubSeq(s, PrevBreak(s, k) + 1, k - 1)

\* the piece after the last break
LastPiece(s) == SubSeq(s, PrevBreak(s, Len(s) + 1) + 1, Len(s))

Delimiter == <<"--", boundary>>
CloseDelimiter == <<"--", boundary, "--">>

DelimiterBreaks == {k \in Breaks(out) : LineBefore(out, k) = Delimiter}
BlankBreaks == {k \in Breaks(out) : LineBefore(out, k) = <<>>}

NumAttachments == Cardinality(DOMAIN msg.Attachments)

\* C6: with n >= 1 attachments the headers are separated from the multipart
\* body by a blank line, there are exactly n+1 delimiter lines "--boundary" (one
\* before each of the n+1 parts, the message body first) and the message
\* ends with the one closing delimiter "--boundary--"; with no attachment the
\* boundary does not occur and the body's is the only Content-Type header.
C6_MultipartFraming ==
    bpc = "done" =>
        IF NumAttachments >= 1
        THEN /\ Cardinality(DelimiterBreaks) = NumAttachments + 1
             /\ \E d \in DelimiterBreaks :
                   /\ \A e \in DelimiterBreaks : d <= e
                   /\ \E b \in BlankBreaks : b < d
                   /\ \E k \in d..Len(out) : out[k] = msg.Body
             /\ LastPiece(out) = CloseDelimiter
             /\ \A k \in Breaks(out) : LineBefore(out, k) # CloseDelimiter
        ELSE /\ boundary \notin Range(out)
             /\ Cardinality({k \in DOMAIN out : out[k] = "Content-Type: "}) = 1
             /\ Contains(out, <<"Content-Type: ", msg.BodyContentType>>)

\* the value of a base64 character
Dec6(c) ==
    IF c = StdPadding THEN 0
    ELSE (CHOOSE v \in 1..64 : encodeStd[v] = c) - 1

\* the bytes a padded base64 text stands for
Decode(t) ==
    LET pad == Cardinality({k \in DOMAIN t : t[k] = StdPadding})
        quad(q) == Dec6(t[4 * q + 1]) * 262144 + Dec6(t[4 * q + 2]) * 4096
                   + Dec6(t[4 * q + 3]) * 64 + Dec6(t[4 * q + 4])
    IN  [k \in 1..((Len(t) \div 4) * 3 - pad) |->
            LET q == (k - 1) \div 3
                r == (k - 1) % 3
            IN  IF r = 0 THEN quad(q) \div 65536
                ELSE IF r = 1 THEN (quad(q) \div 256) % 256
                ELSE quad(q) % 256]

IsBase64Text(t) ==
    /\ Len(t) % 4 = 0
    /\ \A k \in DOMAIN t :
          \/ \E v \in 1..64 : encodeStd[v] = t[k]
          \/ t[k] = StdPadding /\ k > Len(t) - 2 /\ (k < Len(t) => t[k + 1] = StdPadding)

\* where the content of the part of attachment f starts in out
ContentStart(f) ==
    (CHOOSE k \in DOMAIN out :
        /\ out[k] = f
        /\ k > 1
        /\ out[k - 1] \in {"Content-Disposition: attachment; filename=\"",
                           "Content-Disposition: inline; filename=\""}) + 4

\* the content of that part: what follows the blank line after its headers,
\* up to the "--" of the next delimiter
Content(f) ==
    LET from == ContentStart(f)
        dash == CHOOSE k \in from..Len(out) :
                    out[k] = "--" /\ \A j \in from..(k - 1) : out[j] # "--"
    IN  SubSeq(out, from, dash - 1)

NotBreak(t) == t # CRLF

\* C7: the content of a non-inline attachment is the base64 text of its Data
\* in CRLF-terminated lines of at most 76 characters, all but the last of
\* exactly 76, which without the line breaks is the padded base64 text that
\* decodes to Data; the content of an inline attachment is Data as it is.
C7_Base64Lines ==
    bpc = "done" =>
        \A f \in DOMAIN msg.Attachments :
            LET att == msg.Attachments[f]
                c == Content(f)
                text == SelectSeq(c, NotBreak)
            IN  /\ c # <<>> /\ c[Len(c)] = CRLF
                /\ IF att.Inline
                   THEN c = RawBytes(att.Data) \o <<CRLF>>
                   ELSE /\ \A k \in Breaks(c) :
                              /\ Len(LineBefore(c, k)) <= LineLen
                              /\ k < Len(c) => Len(LineBefore(c, k)) = LineLen
                        /\ IsBase64Text(text)
                        /\ Len(text) = 4 * ((Len(att.Data) + 2) \div 3)
                        /\ Decode(text) = att.Data

C7_Witness ==
    /\ bpc = "done"
    /\ DOMAIN msg.Attachments = {"f1", "f2"}
    /\ ~msg.Attachments["f1"].Inline
    /\ Len(msg.Attachments["f1"].Data) = 2 * BytesPerLine
    /\ msg.Attachments["f1"].Data # Zeros(2 * BytesPerLine)
    /\ msg.Attachments["f2"].Inline
    /\ Len(msg.Attachments["f2"].Data) = 1

(***************************************************************************)
(* newMessage and attach.  A path is the sequence of its names and         *)
(* separators; ioutil.ReadFile gives the file's data or an error.          *)
(***************************************************************************)
MaxCalls == 3

Separator == "/"

Paths ==
    { <<"a.txt">>,
      <<"d", Separator, "a.txt">>,
      <<"d", Separator, "e", Separator, "a.txt">>,
      <<"d", Separator, "b.txt">> }

ReadResults ==
    {[data |-> d, err |-> Nil] : d \in {<<1>>, <<2, 3>>}}
    \cup {[data |-> <<>>, err |-> "open: no such file or directory"]}

\* _, filename := filepath.Split(file): what follows the last separator
SplitFile(file) ==
    LET seps == {k \in DOMAIN file : file[k] = Separator}
        last == IF seps = {} THEN 0
                ELSE CHOOSE k \in seps : \A j \in seps : j <= k
    IN  SubSeq(file, last + 1, Len(file))

\* m.Attachments[key] = value
MapPut(map, key, value) ==
    [k \in DOMAIN map \cup {key} |-> IF k = key THEN value ELSE map[k]]

\* an attach that keys the map by the whole path
attachByPath(m, file, inline, read) ==
    IF read.err # Nil THEN [m |-> m, err |-> read.err]
    ELSE LET filename == SplitFile(file)
         IN  [m |-> [m EXCEPT !.Attachments =
                        MapPut(m.Attachments, file,
                               [Filename |-> filename, Data |-> read.data,
                                Inline |-> inline])],
              err |-> Nil]

\* func (m *Message) attach(file string, inline bool) error, where read is
\* what ioutil.ReadFile(file) returned
attach(m, file, inline, read) ==
    IF read.err # Nil THEN [m |-> m, err |-> read.err]
    ELSE LET filename == SplitFile(file)
         IN  [m |-> [m EXCEPT !.Attachments =
                        MapPut(m.Attachments, filename,
                               [Filename |-> filename, Data |-> read.data,
                                Inline |-> inline])],
              err |-> Nil]

\* func newMessage(subject string, body string, bodyContentType string) *Message
newMessage(subject, body, bodyContentType) ==
    [From |-> "", To |-> <<>>, Cc |-> <<>>, Bcc |-> <<>>, ReplyTo |-> "",
     Subject |-> subject, Body |-> body, BodyContentType |-> bodyContentType,
     Attachments |-> <<>>]

NewMessage(subject, body) == newMessage(subject, body, "text/plain")

NewHTMLMessage(subject, body) == newMessage(subject, body, "text/html")

AttachInit ==
    /\ am \in {NewMessage("subject", "body"), NewHTMLMessage("subject", "body")}
    /\ am0 = am
    /\ calls = <<>>
    /\ aret = Nil

\* m.Attach(file)
Attach ==
    /\ Len(calls) < MaxCalls
    /\ \E file \in Paths, read \in ReadResults :
          LET r == attach(am, file, FALSE, read)
          IN  /\ am' = r.m
              /\ aret' = r.err
              /\ calls' = Append(calls, [file |-> file, inline |-> FALSE, read |-> read])
    /\ UNCHANGED am0
    /\ UNCHANGED <<sendVars, authVars, bytesVars>>

\* m.Inline(file)
Inline ==
    /\ Len(calls) < MaxCalls
    /\ \E file \in Paths, read \in ReadResults :
          LET r == attach(am, file, TRUE, read)
          IN  /\ am' = r.m
              /\ aret' = r.err
              /\ calls' = Append(calls, [file |-> file, inline |-> TRUE, read |-> read])
    /\ UNCHANGED am0
    /\ UNCHANGED <<sendVars, authVars, bytesVars>>

AttachNext ==
    \/ Attach
    \/ Inline

InitAttach == AttachInit /\ SendIdle /\ AuthIdle /\ BytesIdle
SpecAttach == InitAttach /\ [][AttachNext]_vars

(***************************************************************************)
(* Properties of attach.                                                   *)
(***************************************************************************)
\* the base name of a path: its last name
BaseName(file) == <<file[Len(file)]>>

Succeeded == {k \in DOMAIN calls : calls[k].read.err = Nil}

\* the last successful call for base name b
LastFor(b) ==
    CHOOSE k \in Succeeded :
        /\ BaseName(calls[k].file) = b
        /\ \A j \in Succeeded : BaseName(calls[j].file) = b => j <= k

\* C10: Attachments holds one entry for each base file name among the calls
\* whose read succeeded, with the data and the inline flag of the last of
\* them; nothing else of the message changes, so a call whose read fails leaves
\* the message as it was, and it returns the read's error.
C10_OneEntryPerBaseName ==
    /\ DOMAIN am.Attachments = {BaseName(calls[k].file) : k \in Succeeded}
    /\ \A b \in DOMAIN am.Attachments :
          /\ am.Attachments[b].Filename = b
          /\ am.Attachments[b].Data = calls[LastFor(b)].read.data
          /\ am.Attachments[b].Inline = calls[LastFor(b)].inline
    /\ [am EXCEPT !.Attachments = <<>>] = am0
    /\ calls # <<>> => aret = calls[Len(calls)].read.err

C10_Witness ==
    /\ Len(calls) = 3
    /\ calls[1].file = <<"d", Separator, "a.txt">> /\ calls[1].read.err = Nil
    /\ ~calls[1].inline
    /\ calls[2].file = <<"a.txt">> /\ calls[2].read.err = Nil
    /\ calls[2].inline /\ calls[2].read.data # calls[1].read.data
    /\ calls[3].file = <<"a.txt">> /\ calls[3].read.err # Nil
    /\ DOMAIN am.Attachments = {<<"a.txt">>}
====
